---- MODULE Spec2Model ----
(***************************************************************************)
(* State-machine model of the SMS ingestion core of the expense tracker:   *)
(* the duplicate detector (services/duplicate_detector.py), the SMS routes *)
(* that call it (routes/sms_integration.py), the decomposer               *)
(* (services/enhanced_sms_parser.py) and the parser                        *)
(* (services/mpesa_parser.py).                                             *)
(*                                                                         *)
(* Amounts are integers in cents (KSh 1.00 = 100).  The detector's         *)
(* confidences are integers in hundredths (0.7 = 70); the parser's are     *)
(* the doubles Python computes.  A Python None is the string "None" for    *)
(* text fields and NoAmount (-1) for numeric fields.                       *)
(***************************************************************************)
EXTENDS Integers, Sequences, FiniteSets, TLC

VARIABLES
    store,       \* db.transactions, in insertion (natural) order
    now,         \* wall clock, in hours
    req,         \* per client: the create_transaction_from_parsed_sms request in flight
    dupLogs,     \* db.duplicate_logs
    importLogs,  \* db.sms_import_logs
    importResp,  \* response of the last import_sms_messages call
    captures,    \* decomposer: what the matched pattern and the fee probes captured
    parsed,      \* decomposer: the parse_message result
    txns,        \* decomposer: the list returned by parse_message_to_transactions
    uuids,       \* number of uuid4() values drawn so far
    dpc,         \* parse_single_sms: position of the preview request
    sms,         \* parser: the text handed to parse_message
    today,       \* parser: datetime.now()
    results,     \* parser: what the successive parse_message calls returned
    stamps,      \* parser: the successive parse_transaction_date calls
    subject,     \* parser: the text and recipient handed to the category suggester
    labels,      \* parser: what the successive categorize_mpesa_transaction calls returned
    verdicts     \* detector: the successive check_comprehensive_duplicate calls for one user

importVars == <<importLogs, importResp>>
decompVars == <<captures, parsed, txns, uuids, dpc>>
suggestVars == <<subject, labels>>
parseVars == <<sms, today, results, stamps, subject, labels, verdicts>>
coreVars == <<store, now, req, dupLogs, importLogs, importResp,
              captures, parsed, txns, uuids, dpc>>

vars == <<store, now, req, dupLogs, importLogs, importResp,
          captures, parsed, txns, uuids, dpc,
          sms, today, results, stamps, subject, labels, verdicts>>

----------------------------------------------------------------------------
(* Bounds of the model *)

MaxStore == 2
NumClients == 2
MaxBatch == 2
MaxImports == 1

(* Program constants *)

time_window_hours == 24
SimilarCap == 50
ReviewCap == 5
OneKsh == 100

None == "None"
NoAmount == -1

Clients == 1..NumClients
\* The clock's readings: the start, and one hour past the trailing window,
\* when every record made at the start has left it
ClockStep == time_window_hours + 1
ClockValues == {0, ClockStep}

FirstUser == "u1"
Amounts == {10000, 10000 + OneKsh}
Hashes == {"h1", "h2"}
TxnIds == {"t1"}
Recipients == {"r1"}

Truthy(x) == x # None /\ x # ""

Max(a, b) == IF a >= b THEN a ELSE b
Min(a, b) == IF a <= b THEN a ELSE b

Take(s, n) == SubSeq(s, 1, Min(n, Len(s)))

\* str(result.inserted_id) of the n-th inserted document, and the n-th uuid4()
Oid(n) == "oid" \o ToString(n)
Uuid(n) == "uuid" \o ToString(n)

----------------------------------------------------------------------------
(* services/duplicate_detector.py *)

\* mpesa_details of a stored document: present = FALSE models the null value
NoDetails == [present |-> FALSE, transaction_id |-> None, recipient |-> None]

Details(t, r) == [present |-> TRUE, transaction_id |-> t, recipient |-> r]

\* Variant: a hash lookup that finds nothing
is_duplicate_by_hash_blind(db, message_hash) == FALSE

is_duplicate_by_hash(db, message_hash) ==
    \E i \in 1..Len(db) : db[i].hash = message_hash

is_duplicate_by_transaction_id(db, transaction_id) ==
    IF ~Truthy(transaction_id) THEN FALSE
    ELSE \E i \in 1..Len(db) :
            db[i].mpesa_details.present
            /\ db[i].mpesa_details.transaction_id = transaction_id

InWindow(doc, amount, user_id, clock, window) ==
    /\ doc.user_id = user_id
    /\ doc.amount >= amount - OneKsh
    /\ doc.amount <= amount + OneKsh
    /\ doc.created_at >= clock - window

find_similar_transactions(db, amount, user_id, clock, window) ==
    Take(SelectSeq(db, LAMBDA doc : InWindow(doc, amount, user_id, clock, window)),
         SimilarCap)

\* The loop of lines 89-94 over the candidates, in list order:
\* "match" (break), "raise" (AttributeError: mpesa_details is null and
\* .get is called on it) or "none" (loop ran to its end).
RECURSIVE ScanSimilar(_, _, _, _)
ScanSimilar(similar, i, amount, recipient) ==
    IF i > Len(similar) THEN "none"
    ELSE IF similar[i].amount # amount
         THEN ScanSimilar(similar, i + 1, amount, recipient)
    ELSE IF ~similar[i].mpesa_details.present THEN "raise"
    ELSE IF similar[i].mpesa_details.recipient = recipient THEN "match"
    ELSE ScanSimilar(similar, i + 1, amount, recipient)

\* Lines 87-106: the synchronous tail of check_comprehensive_duplicate, run
\* on the reasons and confidence gathered by the hash and reference checks.
FuzzyVerdict(reasons, confidence, similar, amount, recipient) ==
    LET scan == ScanSimilar(similar, 1, amount, recipient)
        r1 == IF scan = "match" THEN Append(reasons, "amount_recipient_match")
              ELSE reasons
        c1 == IF scan = "match" THEN Max(confidence, 70) ELSE confidence
        low == Len(similar) > 0 /\ r1 = <<>>
        r2 == IF low THEN Append(r1, "similar_amount_recent") ELSE r1
        c2 == IF low THEN Max(c1, 30) ELSE c1
    IN  IF Len(similar) > 0 /\ scan = "raise"
        THEN [raised |-> TRUE, is_duplicate |-> FALSE, confidence |-> confidence,
              reasons |-> reasons, similar_transactions |-> <<>>]
        ELSE [raised |-> FALSE,
              is_duplicate |-> Len(r2) > 0 /\ c2 >= 70,
              confidence |-> c2,
              reasons |-> r2,
              similar_transactions |-> Take(similar, ReviewCap)]

\* Variant: the hash check raises the confidence and names no reason
HashCheck_unnamed(db, message_hash, reasons, confidence) ==
    IF Truthy(message_hash) /\ is_duplicate_by_hash(db, message_hash)
    THEN [reasons |-> reasons, confidence |-> 100]
    ELSE [reasons |-> reasons, confidence |-> confidence]

\* Lines 72-75 and 77-80
HashCheck(db, message_hash, reasons, confidence) ==
    IF Truthy(message_hash) /\ is_duplicate_by_hash(db, message_hash)
    THEN [reasons |-> Append(reasons, "exact_message_match"), confidence |-> 100]
    ELSE [reasons |-> reasons, confidence |-> confidence]

\* Variant: a reference match worth half confidence
ReferenceCheck_half(db, transaction_id, reasons, confidence) ==
    IF Truthy(transaction_id) /\ is_duplicate_by_transaction_id(db, transaction_id)
    THEN [reasons |-> Append(reasons, "transaction_id_match"),
          confidence |-> Max(confidence, 50)]
    ELSE [reasons |-> reasons, confidence |-> confidence]

ReferenceCheck(db, transaction_id, reasons, confidence) ==
    IF Truthy(transaction_id) /\ is_duplicate_by_transaction_id(db, transaction_id)
    THEN [reasons |-> Append(reasons, "transaction_id_match"),
          confidence |-> Max(confidence, 90)]
    ELSE [reasons |-> reasons, confidence |-> confidence]

\* check_comprehensive_duplicate against one snapshot of the collection
check_comprehensive_duplicate(db, user_id, amount, transaction_id, message_hash, recipient, clock) ==
    LET h == HashCheck(db, message_hash, <<>>, 0)
        t == ReferenceCheck(db, transaction_id, h.reasons, h.confidence)
    IN  FuzzyVerdict(t.reasons, t.confidence,
                     find_similar_transactions(db, amount, user_id, clock,
                                               time_window_hours),
                     amount, recipient)

log_duplicate_attempt(logs, user_id, message_hash, duplicate_info) ==
    Append(logs, [user_id |-> user_id,
                  message_hash |-> message_hash,
                  duplicate_confidence |-> duplicate_info.confidence,
                  duplicate_reasons |-> duplicate_info.reasons,
                  action_taken |-> IF duplicate_info.is_duplicate
                                   THEN "blocked" ELSE "allowed"])

----------------------------------------------------------------------------
(* services/mpesa_parser.py: the result built by _extract_transaction_details
   and _generic_extraction from what the regular expressions captured *)

IsNone(x) == x = NoAmount
\* Python truth of an Optional[float]: neither None nor 0.0
NumTruthy(x) == x # NoAmount /\ x # 0

PatternTypes == {"modern_sent", "fuliza_loan", "compound_received_fuliza", "generic"}
OtherFeeTypes == {"service_fee", "bank_charge"}

\* What one message yields to the extractor: the matched pattern and its
\* captured groups, the fee probes of _extract_all_fees, and whether the text
\* holds one of the income words.
CaptureInputs ==
    {c \in [pattern_type : PatternTypes,
            amount : {NoAmount, 0, 20000},
            transaction_id : TxnIds \cup {None},
            transaction_fee : {NoAmount, 0, 700},
            access_fee : {NoAmount, 500},
            fuliza_deduction : {NoAmount, 5000},
            enhanced_transaction_fee : {NoAmount, 0, 500, 700},
            enhanced_access_fee : {NoAmount, 500},
            enhanced_other : [OtherFeeTypes -> {NoAmount, 200}],
            income_word : BOOLEAN,
            recipient : Recipients,
            message_hash : Hashes] :
        \* a capture group exists only in the pattern that defines it
        /\ (c.transaction_fee # NoAmount => c.pattern_type = "modern_sent")
        /\ (c.access_fee # NoAmount => c.pattern_type = "fuliza_loan")
        /\ (c.fuliza_deduction # NoAmount
                <=> c.pattern_type = "compound_received_fuliza")
        \* every pattern but the fallback begins with the reference code
        /\ (c.transaction_id = None => c.pattern_type = "generic")
        \* the compound pattern holds the words "you have received"
        /\ (c.pattern_type = "compound_received_fuliza" => c.income_word)}

NoCaptures ==
    [pattern_type |-> None, amount |-> NoAmount, transaction_id |-> None,
     transaction_fee |-> NoAmount, access_fee |-> NoAmount,
     fuliza_deduction |-> NoAmount, enhanced_transaction_fee |-> NoAmount,
     enhanced_access_fee |-> NoAmount,
     enhanced_other |-> [k \in OtherFeeTypes |-> NoAmount],
     income_word |-> FALSE, recipient |-> None, message_hash |-> None]

determine_transaction_type(income_word, pattern_type) ==
    IF pattern_type \in {"received", "fuliza_loan"} \/ income_word
    THEN "income" ELSE "expense"

RECURSIVE SumOver(_, _)
SumOver(f, keys) ==
    IF keys = {} THEN 0
    ELSE LET k == CHOOSE x \in keys : TRUE
         IN  (IF f[k] > 0 THEN f[k] ELSE 0) + SumOver(f, keys \ {k})

\* Lines 799-824: pattern fees merged with the probes' fees, and the total
MergedTransactionFee(c) ==
    IF IsNone(c.transaction_fee) /\ NumTruthy(c.enhanced_transaction_fee)
    THEN c.enhanced_transaction_fee ELSE c.transaction_fee

MergedAccessFee(c) ==
    IF IsNone(c.access_fee) /\ NumTruthy(c.enhanced_access_fee)
    THEN c.enhanced_access_fee ELSE c.access_fee

TotalFees(c) ==
    (IF NumTruthy(MergedTransactionFee(c)) THEN MergedTransactionFee(c) ELSE 0)
    + (IF NumTruthy(MergedAccessFee(c)) THEN MergedAccessFee(c) ELSE 0)
    + SumOver(c.enhanced_other, OtherFeeTypes)

FeeTypes == {"transaction_fee", "access_fee"} \cup OtherFeeTypes

\* Lines 1023-1172: the dictionary of _extract_all_fees, a type it does not
\* hold being NoAmount
extract_all_fees(c) ==
    [k \in FeeTypes |->
        IF k = "transaction_fee" THEN c.enhanced_transaction_fee
        ELSE IF k = "access_fee" THEN c.enhanced_access_fee
        ELSE c.enhanced_other[k]]

NoBreakdown == [k \in FeeTypes |-> NoAmount]

\* Lines 808-824: fee_breakdown, a type it does not hold being NoAmount
FeeBreakdown(c) ==
    [k \in FeeTypes |->
        IF k = "transaction_fee"
        THEN (IF NumTruthy(MergedTransactionFee(c))
              THEN MergedTransactionFee(c) ELSE NoAmount)
        ELSE IF k = "access_fee"
        THEN (IF NumTruthy(MergedAccessFee(c))
              THEN MergedAccessFee(c) ELSE NoAmount)
        ELSE IF c.enhanced_other[k] > 0 THEN c.enhanced_other[k]
        ELSE NoAmount]

NoParsed ==
    [ok |-> FALSE, raised |-> FALSE, amount |-> NoAmount, type |-> None,
     mpesa_details |-> [recipient |-> None, transaction_id |-> None,
                        message_type |-> None,
                        transaction_fee |-> NoAmount, access_fee |-> NoAmount],
     original_message_hash |-> None, original_message |-> None,
     total_fees |-> 0, fee_breakdown |-> NoBreakdown]

\* Lines 907-910: the descriptions of the two overdraft kinds format the
\* amount with {amount:,.2f}; a None amount raises TypeError, which neither
\* _extract_transaction_details nor parse_message catches
generate_description_raises(pattern_type, amount) ==
    pattern_type \in {"fuliza_loan", "fuliza_repayment"} /\ IsNone(amount)

\* Lines 717, 732 and 786: three kinds name the recipient themselves
ExtractedRecipient(c) ==
    IF c.pattern_type = "fuliza_loan" THEN "Fuliza M-PESA Loan"
    ELSE IF c.pattern_type = "fuliza_repayment" THEN "Fuliza M-PESA Repayment"
    ELSE IF c.pattern_type = "airtime" THEN "Airtime Purchase"
    ELSE c.recipient

\* Lines 829-860: the dictionary returned for a pattern match.  It has no
\* 'original_message' key, and the swept amount captured at line 740 is not in it.
ExtractTransactionDetails(c) ==
    IF generate_description_raises(c.pattern_type, c.amount)
    THEN [NoParsed EXCEPT !.raised = TRUE]
    ELSE
    [ok |-> TRUE, raised |-> FALSE,
     amount |-> c.amount,
     type |-> determine_transaction_type(c.income_word, c.pattern_type),
     mpesa_details |-> [recipient |-> ExtractedRecipient(c),
                        transaction_id |-> c.transaction_id,
                        message_type |-> c.pattern_type,
                        transaction_fee |-> MergedTransactionFee(c),
                        access_fee |-> MergedAccessFee(c)],
     original_message_hash |-> c.message_hash,
     original_message |-> None,
     total_fees |-> TotalFees(c), fee_breakdown |-> FeeBreakdown(c)]

\* Lines 862-899: the fallback result, or no result without a positive amount
GenericExtraction(c) ==
    IF ~NumTruthy(c.amount) THEN NoParsed
    ELSE [ok |-> TRUE, raised |-> FALSE,
          amount |-> c.amount,
          type |-> determine_transaction_type(c.income_word, "generic"),
          mpesa_details |-> [recipient |-> None,
                             transaction_id |-> c.transaction_id,
                             message_type |-> "generic",
                             transaction_fee |-> NoAmount,
                             access_fee |-> NoAmount],
          original_message_hash |-> c.message_hash,
          original_message |-> None,
          total_fees |-> 0, fee_breakdown |-> NoBreakdown]

parse_message(c) ==
    IF c.pattern_type = "generic" THEN GenericExtraction(c)
    ELSE ExtractTransactionDetails(c)

----------------------------------------------------------------------------
(* services/mpesa_parser.py: the front end of parse_message, on the text *)

(* Python floats.  The confidence is a sum of the doubles 0.4, 0.3, 0.2, 0.1
   and 0.05, each addition rounded to 53 bits (ties to even).  A double below
   2.0 is held exactly as a count of 2^-57 in two limbs <<hi, lo>> of 29 bits. *)
Limb == 2^29

DblZero == <<0, 0>>
Dbl005 == <<13421772, 429496730>>    \* 0.05
Dbl01 == <<26843545, 322122548>>     \* 0.1
Dbl02 == <<53687091, 107374184>>     \* 0.2
Dbl03 == <<80530636, 429496728>>     \* 0.3
Dbl04 == <<107374182, 214748368>>    \* 0.4
Dbl08 == <<214748364, 429496736>>    \* 0.8
Dbl1 == <<268435456, 0>>             \* 1.0

DblLess(a, b) == a[1] < b[1] \/ (a[1] = b[1] /\ a[2] < b[2])
DblMin(a, b) == IF DblLess(b, a) THEN b ELSE a

\* Spacing of the doubles in the binade of a value whose high limb is hi
DblQuantum(hi) ==
    IF hi >= 2^28 THEN 32 ELSE IF hi >= 2^27 THEN 16
    ELSE IF hi >= 2^26 THEN 8 ELSE IF hi >= 2^25 THEN 4
    ELSE IF hi >= 2^24 THEN 2 ELSE 1

\* a + b: the exact sum, rounded to the nearest double, ties to even
DblRound(hi, lo) ==
    LET q == DblQuantum(hi)
        r == lo % q
        down == lo - r
        up == 2 * r > q \/ (2 * r = q /\ (down \div q) % 2 = 1)
        rounded == IF up THEN down + q ELSE down
    IN  <<hi + (rounded \div Limb), rounded % Limb>>

\* (the operands are bound by a quantifier so that each is evaluated once)
DblAdd(a, b) ==
    CHOOSE sum \in {DblRound(x[1] + y[1] + ((x[2] + y[2]) \div Limb),
                             (x[2] + y[2]) % Limb) : x \in {a}, y \in {b}} : TRUE

\* The classifier without its first conjunct
is_mpesa_message_lax(m) ==
    m.has_currency /\ (m.has_action \/ m.has_balance)

\* Lines 98-125, over what the searches of the text find
is_mpesa_message(m) ==
    /\ (m.has_primary \/ m.has_modern_transaction_id
            \/ m.has_legacy_transaction_id)
    /\ m.has_currency
    /\ (m.has_action \/ m.has_balance)

\* Lines 150-164: a capture of the class [0-9,]+(\.[0-9]{1,2})? to an amount
\* in cents, or None when float() rejects what is left without the commas
Digits == <<"0", "1", "2", "3", "4", "5", "6", "7", "8", "9">>
DigitValue(ch) == (CHOOSE i \in 1..10 : Digits[i] = ch) - 1

IsComma(ch) == ch = ","
NotComma(ch) == ~IsComma(ch)

RECURSIVE WholeValue(_)
WholeValue(s) ==
    IF s = <<>> THEN 0
    ELSE 10 * WholeValue(SubSeq(s, 1, Len(s) - 1)) + DigitValue(s[Len(s)])

PointAt(s) == IF \E i \in 1..Len(s) : s[i] = "."
              THEN CHOOSE i \in 1..Len(s) : s[i] = "." ELSE 0

extract_amount(amount_str) ==
    IF amount_str = <<>> THEN NoAmount
    ELSE LET t == SelectSeq(amount_str, NotComma)
             p == PointAt(t)
             whole == IF p = 0 THEN t ELSE SubSeq(t, 1, p - 1)
             frac == IF p = 0 THEN <<>> ELSE SubSeq(t, p + 1, Len(t))
         IN  IF whole = <<>> /\ frac = <<>> THEN NoAmount
             ELSE 100 * WholeValue(whole)
                  + (IF Len(frac) = 1 THEN 10 * WholeValue(frac)
                     ELSE WholeValue(frac))

\* Lines 964-1021.  The recipient and the reference code are taken as their
\* length and character class; amounts are cents.
NoText == [length |-> 0, digits_only |-> FALSE]

calculate_confidence(m, amount, recipient, transaction_id, pattern_type) ==
    LET \* what each step adds; a step that adds nothing is shown as + 0.0,
        \* which leaves a double as it is
        base == IF is_mpesa_message(m)
                THEN IF m.has_modern_transaction_id THEN Dbl04 ELSE Dbl03
                ELSE DblZero
        for_amount ==
            IF NumTruthy(amount) /\ amount > 0
            THEN IF amount >= OneKsh /\ amount <= 500000 * OneKsh
                 THEN Dbl03 ELSE Dbl02
            ELSE DblZero
        for_recipient ==
            IF recipient.length > 2
            THEN IF recipient.length > 5 /\ ~recipient.digits_only
                 THEN Dbl02 ELSE Dbl01
            ELSE DblZero
        \* ^[A-Z0-9]{8,12}$ without IGNORECASE, on a code captured from the
        \* lower-cased text: only a code of digits alone matches
        for_transaction_id ==
            IF transaction_id.length >= 6
            THEN IF transaction_id.length >= 8 /\ transaction_id.length <= 12
                    /\ transaction_id.digits_only
                 THEN Dbl02 ELSE Dbl01
            ELSE DblZero
        for_pattern == IF pattern_type \in {"modern_sent", "modern_received"}
                       THEN Dbl01 ELSE DblZero
        for_balance == IF m.has_balance_text THEN Dbl005 ELSE DblZero
        for_cost == IF m.has_cost_text THEN Dbl005 ELSE DblZero
        for_datetime == IF m.has_datetime_text THEN Dbl005 ELSE DblZero
        confidence ==
            DblAdd(DblAdd(DblAdd(DblAdd(DblAdd(DblAdd(DblAdd(DblAdd(DblZero,
                base), for_amount), for_recipient), for_transaction_id),
                for_pattern), for_balance), for_cost), for_datetime)
    IN  DblMin(confidence, Dbl1)

\* The review flag with the threshold itself counted as low
requires_review_lenient(confidence) == ~DblLess(Dbl08, confidence)

\* Lines 855 and 861: 'requires_review': confidence < 0.8
requires_review(confidence) == DblLess(confidence, Dbl08)

(* datetime: calendar dates at minute precision *)
IsLeap(y) == (y % 4 = 0 /\ y % 100 # 0) \/ y % 400 = 0

DaysInMonth(y, m) ==
    IF m = 2 THEN (IF IsLeap(y) THEN 29 ELSE 28)
    ELSE IF m \in {4, 6, 9, 11} THEN 30 ELSE 31

RECURSIVE DaysBeforeMonth(_, _)
DaysBeforeMonth(y, m) ==
    IF m <= 1 THEN 0 ELSE DaysInMonth(y, m - 1) + DaysBeforeMonth(y, m - 1)

\* date.toordinal()
Ordinal(d) ==
    LET p == d.year - 1
    IN  365 * p + (p \div 4) - (p \div 100) + (p \div 400)
        + DaysBeforeMonth(d.year, d.month) + d.day

\* d > e + timedelta(days)
LaterThan(d, e, days) ==
    \/ Ordinal(d) > Ordinal(e) + days
    \/ /\ Ordinal(d) = Ordinal(e) + days
       /\ 60 * d.hour + d.minute > 60 * e.hour + e.minute

NoStamp == [year |-> 0, month |-> 0, day |-> 0, hour |-> 0, minute |-> 0]

\* datetime(year, month, day, hour, minute) raises ValueError on a day the
\* month does not have
ValidDate(year, month, day) ==
    year >= 1 /\ month \in 1..12 /\ day >= 1 /\ day <= DaysInMonth(year, month)

\* Lines 275-287: a year below 100 is completed from the current year
\* The completion without its previous-century branch
ResolveYear_current(year, current_year) ==
    IF year >= 100 THEN year ELSE year + (current_year \div 100) * 100

ResolveYear(year, current_year) ==
    LET current_century == (current_year \div 100) * 100
        current_2digit == current_year % 100
    IN  IF year >= 100 THEN year
        ELSE IF year <= current_2digit + 5 THEN year + current_century
        ELSE IF year >= current_2digit + 50 THEN year + current_century - 100
        ELSE year + current_century

\* Lines 327-339: the hour of the 12-hour clock
Hour24(hour, am_pm) ==
    IF am_pm = "PM" /\ hour # 12 THEN hour + 12
    ELSE IF am_pm = "AM" /\ hour = 12 THEN 0
    ELSE hour

\* Lines 266-269: the groups of a token first/second/year in the order
\* month, day; line 290: exchanged only when the month so read is above 12
MonthDay(first, second) ==
    IF first > 12 /\ second <= 12
    THEN [month |-> second, day |-> first]
    ELSE [month |-> first, day |-> second]

\* Lines 226-372 for a token first/second/year and a time hour:minute AM|PM,
\* read at the wall-clock time clock
parse_transaction_date(tok, clock) ==
    IF ~tok.present THEN NoStamp
    ELSE
    LET year == ResolveYear(tok.year, clock.year)
        md == MonthDay(tok.first, tok.second)
        hour == IF tok.timed THEN Hour24(tok.hour, tok.am_pm) ELSE 0
        minute == IF tok.timed THEN tok.minute ELSE 0
        day == IF md.month = 2 /\ md.day > 29 THEN 29
               ELSE IF md.month \in {4, 6, 9, 11} /\ md.day > 30 THEN 30
               ELSE md.day
        date_obj == [year |-> year, month |-> md.month, day |-> day,
                     hour |-> hour, minute |-> minute]
    IN  IF ~(md.month \in 1..12 /\ md.day \in 1..31
             /\ hour \in 0..23 /\ minute \in 0..59)
        THEN NoStamp
        ELSE IF ~ValidDate(year, md.month, day) THEN NoStamp
        ELSE IF LaterThan(date_obj, clock, 365) /\ year >= 2000
        THEN IF ValidDate(year - 100, md.month, day)
             THEN [date_obj EXCEPT !.year = year - 100]
             ELSE NoStamp
        ELSE date_obj

\* Lines 583-595: the order in which the pattern kinds are tried
pattern_order ==
    <<"compound_received_fuliza", "fuliza_loan", "fuliza_repayment",
      "modern_sent", "modern_received", "received", "sent", "withdrawal",
      "airtime", "paybill", "till">>

PatternKinds == {pattern_order[i] : i \in 1..Len(pattern_order)}

\* The kinds whose patterns begin with the reference code and "confirmed."
CodedKinds == {"compound_received_fuliza", "fuliza_loan", "fuliza_repayment",
               "modern_sent", "modern_received"}

\* The last kind of the order with a matching pattern
FirstMatch_last(matches) ==
    IF matches \cap PatternKinds = {} THEN None
    ELSE pattern_order[CHOOSE i \in 1..Len(pattern_order) :
                           /\ pattern_order[i] \in matches
                           /\ \A j \in (i + 1)..Len(pattern_order) :
                                  pattern_order[j] \notin matches]

\* Lines 598-607: the first kind of the order with a matching pattern
FirstMatch(matches) ==
    IF matches \cap PatternKinds = {} THEN None
    ELSE pattern_order[CHOOSE i \in 1..Len(pattern_order) :
                           /\ pattern_order[i] \in matches
                           /\ \A j \in 1..(i - 1) : pattern_order[j] \notin matches]

\* Lines 710-790: the recipient handed to the scoring, as a text class
ScoredRecipient(m, pattern_type) ==
    IF pattern_type = "fuliza_loan"
    THEN [length |-> 18, digits_only |-> FALSE]    \* "Fuliza M-PESA Loan"
    ELSE IF pattern_type = "fuliza_repayment"
    THEN [length |-> 23, digits_only |-> FALSE]    \* "Fuliza M-PESA Repayment"
    ELSE IF pattern_type = "airtime"
    THEN [length |-> 16, digits_only |-> FALSE]    \* "Airtime Purchase"
    ELSE m.recipient

\* The groups of the match of kind pattern_type, as the extractor reads them;
\* the message carries no fee text
CapturesOf(m, pattern_type) ==
    [NoCaptures EXCEPT
        !.pattern_type = pattern_type,
        !.amount = extract_amount(m.amount_capture),
        !.transaction_id = IF m.transaction_id.length = 0 THEN None ELSE "t1",
        !.income_word = m.income_word,
        !.recipient = IF m.recipient.length = 0 THEN None ELSE "r1",
        !.message_hash = "h1"]

NoResult ==
    [outcome |-> "none", amount |-> NoAmount, message_type |-> None,
     parsing_confidence |-> DblZero, requires_review |-> FALSE,
     transaction_date |-> NoStamp, parsed_at |-> NoStamp]

\* Lines 622-860 on the match of kind pattern_type: the date is read by the
\* two modern kinds only (lines 647-708); sms_metadata.parsed_at is
\* datetime.now() (line 858)
ExtractResult(m, pattern_type, clock) ==
    LET pd == ExtractTransactionDetails(CapturesOf(m, pattern_type))
        confidence == calculate_confidence(m, pd.amount,
                          ScoredRecipient(m, pattern_type), m.transaction_id,
                          pattern_type)
    IN  IF pd.raised THEN [NoResult EXCEPT !.outcome = "raised"]
        ELSE [outcome |-> "result",
              amount |-> pd.amount,
              message_type |-> pd.mpesa_details.message_type,
              parsing_confidence |-> confidence,
              requires_review |-> requires_review(confidence),
              transaction_date |->
                  IF pattern_type \in {"modern_sent", "modern_received"}
                  THEN parse_transaction_date(m.date, clock) ELSE NoStamp,
              parsed_at |-> clock]

\* Lines 862-899: the fallback scores 0.4 and always asks for review; its
\* result has neither a date nor a metadata block
GenericResult(m) ==
    LET pd == GenericExtraction(CapturesOf(m, "generic"))
    IN  IF ~pd.ok THEN NoResult
        ELSE [outcome |-> "result",
              amount |-> pd.amount,
              message_type |-> pd.mpesa_details.message_type,
              parsing_confidence |-> Dbl04,
              requires_review |-> TRUE,
              transaction_date |-> NoStamp,
              parsed_at |-> NoStamp]

\* Lines 569-620: parse_message on the text m, called at wall-clock time clock
ParseMessage(m, clock) ==
    IF m.blank THEN NoResult
    ELSE IF ~is_mpesa_message(m) THEN NoResult
    ELSE LET pattern_type == FirstMatch(m.matches)
         IN  IF pattern_type # None
             THEN ExtractResult(m, pattern_type, clock)
             ELSE GenericResult(m)

\* Lines 426-567: the category suggester, over what its searches of the
\* text and the recipient find: the number after the word "paybill", the
\* categories one of whose keywords occurs, whether the recipient reads as a
\* person's name, and whether one of the words paybill, till, bill payment
\* occurs
utility_paybills ==
    [number \in {"888880", "444400", "200200"} |->
        IF number = "200200" THEN "Telecommunications" ELSE "Utilities"]

keyword_order ==
    <<"Loans & Credit", "Utilities", "Transport", "Food & Dining", "Shopping",
      "Health", "Education", "Entertainment", "Financial Services",
      "Government & Services">>

KeywordCategories == {keyword_order[i] : i \in 1..Len(keyword_order)}

FirstKeyword(keywords) ==
    keyword_order[CHOOSE i \in 1..Len(keyword_order) :
                      /\ keyword_order[i] \in keywords
                      /\ \A j \in 1..(i - 1) : keyword_order[j] \notin keywords]

\* The suggester with the name rule ahead of the keyword sets
categorize_name_first(t) ==
    IF t.paybill_number \in DOMAIN utility_paybills
    THEN utility_paybills[t.paybill_number]
    ELSE IF t.person_name THEN "Personal Transfer"
    ELSE IF t.keywords # {} THEN FirstKeyword(t.keywords)
    ELSE IF t.bill_word THEN "Bills & Fees"
    ELSE "Other"

categorize_mpesa_transaction(t) ==
    IF t.paybill_number \in DOMAIN utility_paybills
    THEN utility_paybills[t.paybill_number]
    ELSE IF t.keywords # {} THEN FirstKeyword(t.keywords)
    ELSE IF t.person_name THEN "Personal Transfer"
    ELSE IF t.bill_word THEN "Bills & Fees"
    ELSE "Other"

NoSubject == [paybill_number |-> None, keywords |-> {},
              person_name |-> FALSE, bill_word |-> FALSE]

MaxKeywords == 2

\* A number follows the word "paybill" only where that word occurs
CategoryInputs ==
    {t \in [paybill_number : {None, "888880", "200200", "123456"},
            keywords : {k \in SUBSET KeywordCategories :
                            Cardinality(k) <= MaxKeywords},
            person_name : BOOLEAN,
            bill_word : BOOLEAN] :
        t.paybill_number # None => t.bill_word}

\* The texts: what the searches of is_mpesa_message find, the kinds whose
\* patterns match, the amount capture, the classes of the captured recipient
\* and reference code, the three phrases the scoring looks for, and the date
TextClasses(lengths) ==
    {NoText} \cup [length : lengths, digits_only : BOOLEAN]

AmountCaptures ==
    {<<",">>, <<"0", ".", "0", "0">>, <<"0", ".", "5", "0">>,
     <<"2", "0", "0", ".", "0", "0">>,
     <<"6", "0", "0", ",", "0", "0", "0">>}

NoDate == [present |-> FALSE, first |-> 0, second |-> 0, year |-> 0,
           timed |-> FALSE, hour |-> 0, minute |-> 0, am_pm |-> None]

DateToken(first, second, year, hour, minute, am_pm) ==
    [present |-> TRUE, first |-> first, second |-> second, year |-> year,
     timed |-> TRUE, hour |-> hour, minute |-> minute, am_pm |-> am_pm]

Clock(year, month, day, hour, minute) ==
    [year |-> year, month |-> month, day |-> day,
     hour |-> hour, minute |-> minute]

WallClocks ==
    {Clock(2025, 10, 6, 8, 0), Clock(2026, 11, 1, 6, 23), Clock(2060, 3, 1, 12, 0)}

Later(d, e) == LaterThan(d, e, 0)

NoMessage ==
    [blank |-> TRUE, has_primary |-> FALSE,
     has_modern_transaction_id |-> FALSE, has_legacy_transaction_id |-> FALSE,
     has_currency |-> FALSE, has_action |-> FALSE, has_balance |-> FALSE,
     matches |-> {}, amount_capture |-> <<>>,
     recipient |-> NoText, transaction_id |-> NoText,
     has_balance_text |-> FALSE, has_cost_text |-> FALSE,
     has_datetime_text |-> FALSE, income_word |-> FALSE, date |-> NoDate]

\* What every text obeys: a code at the start followed by "confirmed" is also
\* a code followed by "confirmed" and holds the keyword; "balance is" holds
\* "balance"; a coded pattern captures a code of 6 to 12 characters; a
\* matching pattern has captured an amount; a date with its time is the
\* date-and-time phrase
WellFormed(m) ==
    /\ (m.has_modern_transaction_id => m.has_legacy_transaction_id)
    /\ (m.has_legacy_transaction_id => m.has_primary)
    /\ (m.has_balance_text => m.has_balance)
    /\ (m.matches \cap CodedKinds # {}
            => m.has_legacy_transaction_id /\ m.transaction_id.length >= 6)
    /\ (m.matches # {} => m.amount_capture # <<>>)
    /\ (m.date.present => m.has_datetime_text)

MaxMatches == 2
MaxCalls == 2

\* Texts that vary in what the classifier and the patterns find
ClassifierInputs ==
    {m \in [blank : {FALSE},
            has_primary : BOOLEAN,
            has_modern_transaction_id : BOOLEAN,
            has_legacy_transaction_id : BOOLEAN,
            has_currency : BOOLEAN,
            has_action : BOOLEAN,
            has_balance : BOOLEAN,
            matches : {k \in SUBSET PatternKinds : Cardinality(k) <= MaxMatches},
            amount_capture : {<<>>, <<",">>, <<"0", ".", "0", "0">>,
                              <<"2", "0", "0", ".", "0", "0">>},
            recipient : {[length |-> 13, digits_only |-> FALSE]},
            transaction_id : {[length |-> 10, digits_only |-> FALSE]},
            has_balance_text : {FALSE},
            has_cost_text : {FALSE},
            has_datetime_text : {TRUE},
            income_word : {FALSE},
            date : {DateToken(6, 10, 27, 7, 43, "AM")}] :
        WellFormed(m)}
    \cup {NoMessage}

\* Texts the classifier accepts, matched by one kind or none, that vary in
\* what the scoring reads
ScoringInputs ==
    {m \in [blank : {FALSE},
            has_primary : {TRUE},
            has_modern_transaction_id : BOOLEAN,
            has_legacy_transaction_id : {TRUE},
            has_currency : {TRUE},
            has_action : {TRUE},
            has_balance : BOOLEAN,
            matches : {{}, {"modern_sent"}, {"fuliza_loan"}, {"sent"}},
            amount_capture : AmountCaptures,
            recipient : TextClasses({4, 13}),
            transaction_id : TextClasses({6, 10}),
            has_balance_text : BOOLEAN,
            has_cost_text : BOOLEAN,
            has_datetime_text : BOOLEAN,
            income_word : {FALSE},
            date : {NoDate}] :
        WellFormed(m)}

DateTokens ==
    {DateToken(first, second, year, t[1], t[2], t[3]) :
        first \in {6, 12, 13, 31}, second \in {1, 2, 10, 13, 25},
        year \in {24, 25, 27, 30, 31, 76, 99, 2025},
        t \in {<<7, 43, "AM">>, <<12, 5, "AM">>, <<11, 59, "PM">>,
                <<13, 0, "PM">>}}

----------------------------------------------------------------------------
(* services/enhanced_sms_parser.py *)

Movement(amount, type, role, group_id, parent, txid, recipient, message_type, hash) ==
    [amount |-> amount, type |-> type,
     transaction_role |-> role,
     transaction_group_id |-> group_id,
     parent_transaction_id |-> parent,
     mpesa_details |-> [present |-> TRUE, transaction_id |-> txid,
                        recipient |-> recipient, message_type |-> message_type],
     hash |-> hash,
     requires_review |-> FALSE]

create_primary_transaction(pd, group_id) ==
    Movement(pd.amount, pd.type, "primary", group_id, None,
             pd.mpesa_details.transaction_id, pd.mpesa_details.recipient,
             pd.mpesa_details.message_type,
             pd.original_message_hash)

\* Variant: fee legs that carry no parent reference
create_fee_transactions_orphan(pd, group_id, primary_transaction_id) ==
    LET tf == pd.mpesa_details.transaction_fee
    IN  IF NumTruthy(tf) /\ tf > 0
        THEN <<Movement(tf, "expense", "fee", group_id, None,
                        primary_transaction_id, "M-Pesa Transaction Fee",
                        "transaction_fee", pd.original_message_hash)>>
        ELSE <<>>

\* Variant: a fee leg for every fee that is not null, a zero fee included
create_fee_transactions_eager(pd, group_id, primary_transaction_id) ==
    LET tf == pd.mpesa_details.transaction_fee
        af == pd.mpesa_details.access_fee
    IN  (IF ~IsNone(tf)
         THEN <<Movement(tf, "expense", "fee", group_id, primary_transaction_id, primary_transaction_id, "M-Pesa Transaction Fee", "transaction_fee", pd.original_message_hash)>>
         ELSE <<>>)
        \o (IF ~IsNone(af)
            THEN <<Movement(af, "expense", "access_fee", group_id, primary_transaction_id, primary_transaction_id, "Fuliza Access Fee", "access_fee", pd.original_message_hash)>>
            ELSE <<>>)

create_fee_transactions(pd, group_id, primary_transaction_id) ==
    LET tf == pd.mpesa_details.transaction_fee
        af == pd.mpesa_details.access_fee
        fee == IF NumTruthy(tf) /\ tf > 0
               THEN <<Movement(tf, "expense", "fee", group_id,
                               primary_transaction_id, primary_transaction_id,
                               "M-Pesa Transaction Fee", "transaction_fee",
                               pd.original_message_hash)>>
               ELSE <<>>
        access == IF NumTruthy(af) /\ af > 0
                  THEN <<Movement(af, "expense", "access_fee", group_id,
                                  primary_transaction_id, primary_transaction_id,
                                  "Fuliza Access Fee", "access_fee",
                                  pd.original_message_hash)>>
                  ELSE <<>>
    IN  fee \o access

\* Lines 217-236: the scan runs over parsed_data.get('original_message', ''):
\* nothing is found in an empty text, and swept is what the scan would find
\* in a text that is there
extract_fuliza_deduction_amount(pd, swept) ==
    IF ~Truthy(pd.original_message) THEN NoAmount ELSE swept

create_fuliza_transactions(pd, group_id, primary_transaction_id, swept) ==
    IF pd.mpesa_details.message_type = "compound_received_fuliza"
    THEN LET d == extract_fuliza_deduction_amount(pd, swept)
         IN  IF NumTruthy(d) /\ d > 0
             THEN <<Movement(d, "expense", "fuliza_deduction", group_id,
                             primary_transaction_id, primary_transaction_id,
                             "Fuliza M-PESA Repayment", "fuliza_repayment",
                             pd.original_message_hash)>>
             ELSE <<>>
    ELSE <<>>

\* Number of uuid4() calls of one parse_message_to_transactions: the group
\* id, and the parent reference when the primary has no reference code
UuidsDrawn(pd) ==
    IF ~pd.ok \/ IsNone(pd.amount) THEN IF pd.ok THEN 1 ELSE 0
    ELSE IF Truthy(pd.mpesa_details.transaction_id) THEN 1 ELSE 2

\* parse_message_to_transactions on the result pd, with n uuids drawn before:
\* [raised, list].  TransactionCreate rejects a null amount (ValidationError).
parse_message_to_transactions(pd, swept, n) ==
    IF ~pd.ok THEN [raised |-> FALSE, list |-> <<>>]
    ELSE IF IsNone(pd.amount) THEN [raised |-> TRUE, list |-> <<>>]
    ELSE LET group_id == Uuid(n + 1)
             primary == create_primary_transaction(pd, group_id)
             primary_transaction_id ==
                 IF Truthy(primary.mpesa_details.transaction_id)
                 THEN primary.mpesa_details.transaction_id
                 ELSE Uuid(n + 2)
         IN  [raised |-> FALSE,
              list |-> <<primary>>
                       \o create_fee_transactions(pd, group_id,
                                                  primary_transaction_id)
                       \o create_fuliza_transactions(pd, group_id,
                                                     primary_transaction_id,
                                                     swept)]

\* Lines 308: net_effect of analyze_transaction_completeness
RECURSIVE net_effect(_)
net_effect(list) ==
    IF list = <<>> THEN 0
    ELSE (IF Head(list).type = "income" THEN Head(list).amount
          ELSE 0 - Head(list).amount) + net_effect(Tail(list))

----------------------------------------------------------------------------
(* routes/sms_integration.py: import_sms_messages *)

\* The attributes of a DuplicateDetector that also defines hash_message
DuplicateDetectorAttributes_hashing ==
    {"hash_message", "is_duplicate_by_hash", "is_duplicate_by_transaction_id",
     "find_similar_transactions", "check_comprehensive_duplicate",
     "calculate_similarity_score", "_string_similarity",
     "log_duplicate_attempt", "get_duplicate_statistics"}

\* The attributes class DuplicateDetector defines
DuplicateDetectorAttributes ==
    {"is_duplicate_by_hash", "is_duplicate_by_transaction_id",
     "find_similar_transactions", "check_comprehensive_duplicate",
     "calculate_similarity_score", "_string_similarity",
     "log_duplicate_attempt", "get_duplicate_statistics"}

\* Lines 156-162: Transaction(user_id=user_id, **transaction_create.dict()),
\* inserted as it is; the id the store assigns is not written back into it
DocumentOf(db, tc, clock) ==
    [id |-> Oid(Len(db) + 1),
     user_id |-> FirstUser,
     amount |-> tc.amount,
     hash |-> tc.hash,
     mpesa_details |-> [present |-> TRUE,
                        transaction_id |-> tc.mpesa_details.transaction_id,
                        recipient |-> tc.mpesa_details.recipient],
     created_at |-> clock,
     transaction_group_id |-> tc.transaction_group_id,
     transaction_role |-> tc.transaction_role,
     parent_transaction_id |-> tc.parent_transaction_id]

\* Lines 153-169: the insert loop over one message's movements
RECURSIVE InsertAll(_, _, _)
InsertAll(db, list, clock) ==
    IF list = <<>> THEN db
    ELSE InsertAll(Append(db, DocumentOf(db, Head(list), clock)), Tail(list), clock)

RECURSIVE OidsFrom(_, _)
OidsFrom(n, k) == IF k = 0 THEN <<>> ELSE <<Oid(n + 1)>> \o OidsFrom(n + 1, k - 1)

\* The messages a batch is made of, each standing for what the parser captures
\* from it: a sent message with a carrier fee, and a text with a bare amount
ImportMessages ==
    {c \in CaptureInputs :
        /\ c.amount = 20000 /\ c.transaction_id \in TxnIds /\ ~c.income_word
        /\ c.enhanced_transaction_fee = NoAmount /\ c.enhanced_access_fee = NoAmount
        /\ \A k \in OtherFeeTypes : c.enhanced_other[k] = NoAmount
        /\ \/ c.pattern_type = "modern_sent" /\ c.transaction_fee = 700
           \/ c.pattern_type = "generic"}

\* Line 162: insert_one raises when the store fails.  A request meets no
\* failure, or one: fault is the number of inserts the store still accepts
\* before the one it fails.
NoFault == -1
MaxFault == 1
InsertFaults == {NoFault} \cup 0..MaxFault

Accepted(fault, wanted) ==
    IF fault = NoFault \/ fault >= wanted THEN wanted ELSE fault

ImportStart(db, n, fault) ==
    [db |-> db, uuids |-> n, successful_imports |-> 0, duplicates_found |-> 0,
     parsing_errors |-> 0, transactions_created |-> <<>>,
     total_monetary_movements |-> 0, errors |-> 0, fault |-> fault]

\* The loop body with the handler of lines 183-185 passing over the message
\* without counting it
ImportOne_uncounted(st, message, clock) ==
    IF "hash_message" \notin DuplicateDetectorAttributes
    THEN st
    ELSE IF is_duplicate_by_hash(st.db, message.message_hash)
    THEN [st EXCEPT !.duplicates_found = @ + 1]
    ELSE st

\* Lines 121-185: one iteration of the loop.  Line 126 looks up
\* DuplicateDetector.hash_message; a class without that attribute raises
\* AttributeError, which the handler at lines 183-185 counts as a parsing error.
ImportOne(st, message, clock) ==
    IF "hash_message" \notin DuplicateDetectorAttributes
    THEN [st EXCEPT !.parsing_errors = @ + 1, !.errors = @ + 1]
    ELSE IF is_duplicate_by_hash(st.db, message.message_hash)
    THEN [st EXCEPT !.duplicates_found = @ + 1]
    ELSE LET pd == parse_message(message)
             r == parse_message_to_transactions(pd, message.fuliza_deduction,
                                                st.uuids)
             n == st.uuids + UuidsDrawn(pd)
             k == Accepted(st.fault, Len(r.list))
         IN  IF pd.raised \/ r.raised \/ r.list = <<>>
             THEN [st EXCEPT !.parsing_errors = @ + 1, !.errors = @ + 1,
                             !.uuids = n]
             ELSE IF k < Len(r.list)
             \* the insert after the k-th raises: lines 183-185 count the
             \* message as an error; what lines 162-166 did stays done
             THEN [st EXCEPT
                     !.db = InsertAll(st.db, SubSeq(r.list, 1, k), clock),
                     !.uuids = n,
                     !.transactions_created = @ \o OidsFrom(Len(st.db), k),
                     !.total_monetary_movements = @ + k,
                     !.parsing_errors = @ + 1,
                     !.errors = @ + 1,
                     !.fault = NoFault]
             ELSE [st EXCEPT
                     !.db = InsertAll(st.db, r.list, clock),
                     !.uuids = n,
                     !.transactions_created =
                         @ \o OidsFrom(Len(st.db), Len(r.list)),
                     !.total_monetary_movements = @ + Len(r.list),
                     !.successful_imports = @ + 1,
                     !.fault = IF st.fault = NoFault THEN NoFault
                               ELSE st.fault - k]

RECURSIVE ImportLoop(_, _, _)
ImportLoop(st, messages, clock) ==
    IF messages = <<>> THEN st
    ELSE ImportLoop(ImportOne(st, Head(messages), clock), Tail(messages), clock)

Batches == UNION {[1..n -> ImportMessages] : n \in 0..MaxBatch}

\* The whole handler.  The loop body raises before its first await, so the
\* loop runs to its end without yielding; lines 188-213 then write the import
\* log and return the response.
import_sms_messages(messages) ==
    /\ Len(importLogs) < MaxImports
    /\ \E fault \in InsertFaults :
       LET st == ImportLoop(ImportStart(store, uuids, fault), messages, now)
           resp == [total_messages |-> Len(messages),
                    successful_imports |-> st.successful_imports,
                    duplicates_found |-> st.duplicates_found,
                    parsing_errors |-> st.parsing_errors,
                    transactions_created |-> st.transactions_created,
                    total_monetary_movements |-> st.total_monetary_movements,
                    errors |-> st.errors]
       IN  /\ store' = st.db
           /\ uuids' = st.uuids
           /\ importResp' = resp
           /\ importLogs' = Append(importLogs,
                    [messages_processed |-> Len(messages),
                     transactions_created |-> st.successful_imports,
                     duplicates_found |-> st.duplicates_found,
                     parsing_errors |-> st.parsing_errors])
    /\ UNCHANGED <<now, req, dupLogs, captures, parsed, txns, dpc, parseVars>>

----------------------------------------------------------------------------
(* routes/sms_integration.py: create_transaction_from_parsed_sms *)

\* The request body: the parsed_data the client posts back, and whether its
\* category_id names an existing category.
\* mpesa_details as posted: the key left out, or details with or without a
\* reference code and a counterparty (the generic fallback has neither)
DetailsInputs ==
    {NoDetails, Details(None, None)} \cup
    {Details(t, r) : t \in TxnIds, r \in Recipients}

ParsedInputs ==
    [amount : Amounts,
     original_message_hash : Hashes,
     mpesa_details : DetailsInputs]

NoInput == [amount |-> NoAmount, original_message_hash |-> None,
            mpesa_details |-> NoDetails]

NoVerdict == [raised |-> FALSE, is_duplicate |-> FALSE, confidence |-> 0,
              reasons |-> <<>>, similar_transactions |-> <<>>]

IdleRequest == [pc |-> "idle", parsed_data |-> NoInput, reasons |-> <<>>,
                confidence |-> 0, verdict |-> NoVerdict, status |-> 0]

\* The document Transaction(...).dict() of lines 310-322
NewDocument(db, pd, clock) ==
    [id |-> Oid(Len(db) + 1),
     user_id |-> FirstUser,
     amount |-> pd.amount,
     hash |-> pd.original_message_hash,
     mpesa_details |-> pd.mpesa_details,
     created_at |-> clock,
     transaction_group_id |-> None,
     transaction_role |-> "primary",
     parent_transaction_id |-> None]

\* The first await of check_comprehensive_duplicate that the arguments reach
AfterBegin(pd) ==
    IF Truthy(pd.original_message_hash) THEN "hash"
    ELSE IF Truthy(pd.mpesa_details.transaction_id) THEN "txid"
    ELSE "similar"

AfterHash(pd) ==
    IF Truthy(pd.mpesa_details.transaction_id) THEN "txid" ELSE "similar"

\* Lines 267-288: user and category lookups, then the call of the detector
BeginCreate(c, pd, category_found) ==
    /\ req[c].pc = "idle"
    /\ req' = [req EXCEPT ![c] =
                 IF category_found
                 THEN [IdleRequest EXCEPT !.pc = AfterBegin(pd), !.parsed_data = pd]
                 ELSE [IdleRequest EXCEPT !.pc = "done", !.parsed_data = pd,
                                          !.status = 404]]
    /\ UNCHANGED <<store, now, dupLogs, importVars, decompVars, parseVars>>

\* Line 73: await is_duplicate_by_hash
HashStep(c) ==
    /\ req[c].pc = "hash"
    /\ LET pd == req[c].parsed_data
           h == HashCheck(store, pd.original_message_hash,
                          req[c].reasons, req[c].confidence)
       IN  req' = [req EXCEPT ![c].pc = AfterHash(pd),
                              ![c].reasons = h.reasons,
                              ![c].confidence = h.confidence]
    /\ UNCHANGED <<store, now, dupLogs, importVars, decompVars, parseVars>>

\* Line 78: await is_duplicate_by_transaction_id
ReferenceStep(c) ==
    /\ req[c].pc = "txid"
    /\ LET pd == req[c].parsed_data
           t == ReferenceCheck(store, pd.mpesa_details.transaction_id,
                               req[c].reasons, req[c].confidence)
       IN  req' = [req EXCEPT ![c].pc = "similar",
                              ![c].reasons = t.reasons,
                              ![c].confidence = t.confidence]
    /\ UNCHANGED <<store, now, dupLogs, importVars, decompVars, parseVars>>

\* Lines 83-106 and 290-291: await find_similar_transactions, the verdict,
\* and the rejection (400) or the failure of the check itself (500)
SimilarStep(c) ==
    /\ req[c].pc = "similar"
    /\ LET pd == req[c].parsed_data
           similar == find_similar_transactions(store, pd.amount, FirstUser,
                                                now, time_window_hours)
           v == FuzzyVerdict(req[c].reasons, req[c].confidence, similar,
                             pd.amount, pd.mpesa_details.recipient)
       IN  req' = [req EXCEPT ![c].verdict = v,
                              ![c].reasons = v.reasons,
                              ![c].confidence = v.confidence,
                              ![c].pc = IF v.raised \/ v.is_duplicate
                                        THEN "done" ELSE "insert",
                              ![c].status = IF v.raised THEN 500
                                            ELSE IF v.is_duplicate THEN 400
                                            ELSE 0]
    /\ UNCHANGED <<store, now, dupLogs, importVars, decompVars, parseVars>>

\* Lines 293-325: await insert_one
InsertStep(c) ==
    /\ req[c].pc = "insert"
    /\ Len(store) < MaxStore
    /\ store' = Append(store, NewDocument(store, req[c].parsed_data, now))
    /\ req' = [req EXCEPT ![c].pc = "done", ![c].status = 200]
    /\ UNCHANGED <<now, dupLogs, importVars, decompVars, parseVars>>

\* The response is returned and the client is free to post again
Respond(c) ==
    /\ req[c].pc = "done"
    /\ req' = [req EXCEPT ![c] = IdleRequest]
    /\ UNCHANGED <<store, now, dupLogs, importVars, decompVars, parseVars>>

\* Wall-clock time passing between requests and between awaits
Tick ==
    /\ now + ClockStep \in ClockValues
    /\ now' = now + ClockStep
    /\ UNCHANGED <<store, req, dupLogs, importVars, decompVars, parseVars>>

----------------------------------------------------------------------------

NoResponse ==
    [total_messages |-> 0, successful_imports |-> 0, duplicates_found |-> 0,
     parsing_errors |-> 0, transactions_created |-> <<>>,
     total_monetary_movements |-> 0, errors |-> 0]

Init ==
    /\ store = <<>>
    /\ now = 0
    /\ req = [c \in Clients |-> IdleRequest]
    /\ dupLogs = <<>>
    /\ importLogs = <<>>
    /\ importResp = NoResponse
    /\ captures = NoCaptures
    /\ parsed = NoParsed
    /\ txns = <<>>
    /\ uuids = 0
    /\ dpc = "off"
    /\ sms = NoMessage
    /\ today = Clock(2025, 10, 6, 8, 0)
    /\ results = <<>>
    /\ stamps = <<>>
    /\ subject = NoSubject
    /\ labels = <<>>
    /\ verdicts = <<>>

----------------------------------------------------------------------------
(* routes/sms_integration.py: parse_single_sms, the preview of one message *)

\* Lines 33-35: parse the message; no result is answered with 400, an
\* exception of the parser with 500 (lines 83-85)
ParseStep ==
    /\ dpc = "captured"
    /\ parsed' = parse_message(captures)
    /\ dpc' = IF parsed'.raised THEN "failed"
              ELSE IF parsed'.ok THEN "parsed" ELSE "rejected"
    /\ UNCHANGED <<store, now, req, dupLogs, importVars, captures, txns, uuids,
                   parseVars>>

\* Lines 37-85: after the category and user lookups, the breakdown by
\* parse_message_to_transactions; an exception is answered with 500
DecomposeStep ==
    /\ dpc = "parsed"
    /\ LET r == parse_message_to_transactions(parsed, captures.fuliza_deduction,
                                              uuids)
       IN  /\ txns' = r.list
           /\ dpc' = IF r.raised THEN "failed" ELSE "previewed"
    /\ uuids' = uuids + UuidsDrawn(parsed)
    /\ UNCHANGED <<store, now, req, dupLogs, importVars, captures, parsed,
                   parseVars>>

InitDecomp ==
    /\ store = <<>>
    /\ now = 0
    /\ req = [c \in Clients |-> IdleRequest]
    /\ dupLogs = <<>>
    /\ importLogs = <<>>
    /\ importResp = NoResponse
    /\ captures \in CaptureInputs
    /\ parsed = NoParsed
    /\ txns = <<>>
    /\ uuids = 0
    /\ dpc = "captured"
    /\ sms = NoMessage
    /\ today = Clock(2025, 10, 6, 8, 0)
    /\ results = <<>>
    /\ stamps = <<>>
    /\ subject = NoSubject
    /\ labels = <<>>
    /\ verdicts = <<>>

NextDecomp ==
    \/ ParseStep
    \/ DecomposeStep

\* One preview request per message text
SpecDecomp == InitDecomp /\ [][NextDecomp]_vars

----------------------------------------------------------------------------
(* services/mpesa_parser.py called on one text at successive wall-clock times *)

\* One call of MPesaParser.parse_message(message)
ParseCall ==
    /\ sms # NoMessage \/ results = <<>>
    /\ Len(results) < MaxCalls
    /\ results' = Append(results, ParseMessage(sms, today))
    /\ UNCHANGED <<coreVars, sms, today, stamps, suggestVars, verdicts>>

\* One call of MPesaParser.parse_transaction_date(date_str, time_str): the
\* time of the call, the local variable year after line 287, and the value
\* returned
ParseDateCall ==
    /\ sms.date.present
    /\ Len(stamps) < MaxCalls
    /\ stamps' = Append(stamps,
                        [at |-> today,
                         year |-> ResolveYear(sms.date.year, today.year),
                         value |-> parse_transaction_date(sms.date, today)])
    /\ UNCHANGED <<coreVars, sms, today, results, suggestVars, verdicts>>

\* Time passes between two calls
ClockAdvance ==
    /\ \E t \in WallClocks : Later(t, today) /\ today' = t
    /\ UNCHANGED <<coreVars, sms, results, stamps, suggestVars, verdicts>>

IdleCore ==
    /\ store = <<>>
    /\ now = 0
    /\ req = [c \in Clients |-> IdleRequest]
    /\ dupLogs = <<>>
    /\ importLogs = <<>>
    /\ importResp = NoResponse
    /\ captures = NoCaptures
    /\ parsed = NoParsed
    /\ txns = <<>>
    /\ uuids = 0
    /\ dpc = "off"

NextParse ==
    \/ ParseCall
    \/ ClockAdvance

InitParse ==
    /\ IdleCore
    /\ sms \in ClassifierInputs
    /\ today \in WallClocks
    /\ results = <<>>
    /\ stamps = <<>>
    /\ subject = NoSubject
    /\ labels = <<>>
    /\ verdicts = <<>>

\* parse_message over the texts of ClassifierInputs
SpecParse == InitParse /\ [][NextParse]_vars

InitScore ==
    /\ IdleCore
    /\ sms \in ScoringInputs
    /\ today \in WallClocks
    /\ results = <<>>
    /\ stamps = <<>>
    /\ subject = NoSubject
    /\ labels = <<>>
    /\ verdicts = <<>>

\* parse_message over the texts of ScoringInputs
SpecScore == InitScore /\ [][NextParse]_vars

NextDate ==
    \/ ParseDateCall
    \/ ClockAdvance

InitDate ==
    /\ IdleCore
    /\ sms \in {[NoMessage EXCEPT !.blank = FALSE, !.has_datetime_text = TRUE,
                                   !.date = d] : d \in DateTokens}
    /\ today \in WallClocks
    /\ results = <<>>
    /\ stamps = <<>>
    /\ subject = NoSubject
    /\ labels = <<>>
    /\ verdicts = <<>>

\* parse_transaction_date over the tokens of DateTokens
SpecDate == InitDate /\ [][NextDate]_vars

\* One call of MPesaParser.categorize_mpesa_transaction(message, recipient)
CategorizeCall ==
    /\ Len(labels) < MaxCalls
    /\ labels' = Append(labels, categorize_mpesa_transaction(subject))
    /\ UNCHANGED <<coreVars, sms, today, results, stamps, subject, verdicts>>

\* The caller turns to another text
NextSubject ==
    /\ labels # <<>>
    /\ \E t \in CategoryInputs : subject' = t
    /\ labels' = <<>>
    /\ UNCHANGED <<coreVars, sms, today, results, stamps, verdicts>>

NextCategory ==
    \/ CategorizeCall
    \/ NextSubject

InitCategory ==
    /\ IdleCore
    /\ sms = NoMessage
    /\ today = Clock(2025, 10, 6, 8, 0)
    /\ results = <<>>
    /\ stamps = <<>>
    /\ subject \in CategoryInputs
    /\ labels = <<>>
    /\ verdicts = <<>>

\* categorize_mpesa_transaction over the texts of CategoryInputs
SpecCategory == InitCategory /\ [][NextCategory]_vars

----------------------------------------------------------------------------
(* services/duplicate_detector.py: check_comprehensive_duplicate called for
   one user while the collection also takes the records of another *)

OtherUser == "u2"

\* A stored transaction document of the given user
StoredDocument(db, user_id, pd, clock) ==
    [NewDocument(db, pd, clock) EXCEPT !.user_id = user_id]

\* What the caller asks about: one amount, either hash, with or without a
\* reference code and counterparty
VerdictInputs ==
    {pd \in ParsedInputs :
        /\ pd.amount = 10000
        /\ pd.mpesa_details.present}

\* The records of the other user: one with a reference code, one without
OtherRecords ==
    {pd \in ParsedInputs :
        /\ pd.mpesa_details.present
        /\ \/ pd.amount = 10000 /\ pd.original_message_hash = "h1"
              /\ Truthy(pd.mpesa_details.transaction_id)
           \/ pd.amount = 10000 + OneKsh /\ pd.original_message_hash = "h2"
              /\ ~Truthy(pd.mpesa_details.transaction_id)}

\* A request of the other user stores a transaction
OtherUserInsert ==
    /\ Len(store) < MaxStore
    /\ \E pd \in OtherRecords :
           store' = Append(store, StoredDocument(store, OtherUser, pd, now))
    /\ UNCHANGED <<now, req, dupLogs, importVars, decompVars, parseVars>>

\* Lines 56-106: one call of check_comprehensive_duplicate for FirstUser
VerdictCall ==
    /\ Len(verdicts) < MaxCalls
    /\ \E pd \in VerdictInputs :
           verdicts' = Append(verdicts,
               [arguments |-> pd,
                verdict |-> check_comprehensive_duplicate(store, FirstUser,
                                pd.amount, pd.mpesa_details.transaction_id,
                                pd.original_message_hash,
                                pd.mpesa_details.recipient, now)])
    /\ UNCHANGED <<coreVars, sms, today, results, stamps, subject, labels>>

NextVerdict ==
    \/ OtherUserInsert
    \/ VerdictCall

\* The collection holds no record or one record of FirstUser
InitVerdict ==
    /\ store \in {<<>>} \cup
                 {<<StoredDocument(<<>>, FirstUser, pd, 0)>> : pd \in ParsedInputs}
    /\ now = 0
    /\ req = [c \in Clients |-> IdleRequest]
    /\ dupLogs = <<>>
    /\ importLogs = <<>>
    /\ importResp = NoResponse
    /\ captures = NoCaptures
    /\ parsed = NoParsed
    /\ txns = <<>>
    /\ uuids = 0
    /\ dpc = "off"
    /\ sms = NoMessage
    /\ today = Clock(2025, 10, 6, 8, 0)
    /\ results = <<>>
    /\ stamps = <<>>
    /\ subject = NoSubject
    /\ labels = <<>>
    /\ verdicts = <<>>

\* check_comprehensive_duplicate for one user over a shared collection
SpecVerdict == InitVerdict /\ [][NextVerdict]_vars

----------------------------------------------------------------------------
(* The requests that create records *)

CreateNext(c) ==
    \/ \E pd \in ParsedInputs, found \in BOOLEAN : BeginCreate(c, pd, found)
    \/ HashStep(c)
    \/ ReferenceStep(c)
    \/ SimilarStep(c)
    \/ InsertStep(c)

Next ==
    \/ \E c \in Clients : CreateNext(c)
    \/ \E messages \in Batches : import_sms_messages(messages)
    \/ Tick

\* NumClients clients, each posting one request; their awaits interleave
Spec == Init /\ [][Next]_vars

\* Requests handled one at a time: a single client, each request run to its
\* response before the next begins
NextSeq ==
    \/ CreateNext(1)
    \/ Respond(1)
    \/ \E messages \in Batches : import_sms_messages(messages)
    \/ Tick

SpecSeq == Init /\ [][NextSeq]_vars

----------------------------------------------------------------------------
(* Properties *)

\* The duplicate check of client c's request has ended and the request has
\* not inserted: the collection is as the check saw it
Checked(c) ==
    \/ req[c].pc = "insert"
    \/ req[c].pc = "done" /\ req[c].status \in {400, 500}

Returned(c) == Checked(c) /\ ~req[c].verdict.raised

HashRecorded(c) ==
    /\ Truthy(req[c].parsed_data.original_message_hash)
    /\ is_duplicate_by_hash(store, req[c].parsed_data.original_message_hash)

\* C1: once a record with a content hash is in the store, every later
\* duplicate check given that hash returns is_duplicate = true with
\* confidence 1.0, whatever else the store holds.
C1_HashIdempotence ==
    \A c \in Clients :
        Checked(c) /\ HashRecorded(c)
            => /\ ~req[c].verdict.raised
               /\ req[c].verdict.is_duplicate
               /\ req[c].verdict.confidence = 100

\* C2: of two requests for the same message that run concurrently, at most
\* one persists a record with that content hash.
C2_AtMostOncePersistence ==
    \A c, d \in Clients :
        /\ c # d
        /\ req[c].status = 200
        /\ req[d].status = 200
        => req[c].parsed_data.original_message_hash
               # req[d].parsed_data.original_message_hash

\* C3: after any sequence of non-overlapping import and create operations
\* the store holds no two primary movements with the same content hash.
C3_NoTwoPrimariesPerHash ==
    \A i, j \in 1..Len(store) :
        /\ i < j
        /\ store[i].transaction_role = "primary"
        /\ store[j].transaction_role = "primary"
        /\ Truthy(store[i].hash)
        => store[i].hash # store[j].hash

\* A later submission of a text whose hash the store already holds was
\* rejected as a duplicate, and the store holds the hash once
C3_Witness ==
    /\ req[1].pc = "done" /\ req[1].status = 400
    /\ HashRecorded(1)
    /\ Cardinality({i \in 1..Len(store) :
           store[i].hash = req[1].parsed_data.original_message_hash}) = 1

\* Client c's request repeats a submission whose record is in the store with
\* its hash, reference code, amount and counterparty
Resubmission(c) ==
    /\ Checked(c)
    /\ req[c].parsed_data.mpesa_details.present
    /\ Truthy(req[c].parsed_data.mpesa_details.transaction_id)
    /\ Truthy(req[c].parsed_data.mpesa_details.recipient)
    /\ \E i \in 1..Len(store) :
          /\ store[i].hash = req[c].parsed_data.original_message_hash
          /\ store[i].amount = req[c].parsed_data.amount
          /\ store[i].mpesa_details = req[c].parsed_data.mpesa_details

\* The first record of the resubmitted text is still inside the trailing window
FirstRecordRecent(c) ==
    \E i \in 1..Len(store) :
        /\ store[i].hash = req[c].parsed_data.original_message_hash
        /\ store[i].mpesa_details = req[c].parsed_data.mpesa_details
        /\ store[i].amount = req[c].parsed_data.amount
        /\ InWindow(store[i], req[c].parsed_data.amount, FirstUser, now,
                    time_window_hours)

VerdictConsistent(db, pd, clock, v) ==
    /\ v.is_duplicate <=> v.confidence >= 70
    /\ Truthy(pd.original_message_hash)
         /\ is_duplicate_by_hash(db, pd.original_message_hash)
         => v.confidence = 100
    /\ is_duplicate_by_transaction_id(db, pd.mpesa_details.transaction_id)
         => v.confidence >= 90
    /\ (\E i \in 1..Len(db) :
          /\ InWindow(db[i], pd.amount, FirstUser, clock, time_window_hours)
          /\ db[i].amount = pd.amount
          /\ db[i].mpesa_details.present
          /\ Truthy(pd.mpesa_details.recipient)
          /\ db[i].mpesa_details.recipient = pd.mpesa_details.recipient)
         => v.confidence >= 70
    /\ v.reasons = <<>> => v.confidence = 0

\* C5: every verdict of check_comprehensive_duplicate has
\* is_duplicate = (confidence >= 0.7), with confidence 1.0 when the hash
\* matches, at least 0.9 when the reference code matches, at least 0.7 when a
\* candidate has the exact amount and the same counterparty, and 0.0 when no
\* reason was triggered.  Stated of the verdicts the requests obtain and of
\* the verdict for every submission against every store the requests build.
C5_VerdictThreshold ==
    /\ \A c \in Clients :
          Returned(c)
              => VerdictConsistent(store, req[c].parsed_data, now, req[c].verdict)
    /\ \A pd \in ParsedInputs :
          LET v == check_comprehensive_duplicate(
                       store, FirstUser, pd.amount,
                       pd.mpesa_details.transaction_id,
                       pd.original_message_hash,
                       pd.mpesa_details.recipient, now)
          IN  ~v.raised => VerdictConsistent(store, pd, now, v)

\* A request was rejected on the strength of the reference code alone
C5_Witness ==
    \E c \in Clients :
        /\ Returned(c)
        /\ req[c].status = 400
        /\ req[c].verdict.reasons = <<"transaction_id_match">>
        /\ req[c].verdict.confidence = 90

\* C6: when neither the hash nor the reference code matches and the
\* submission carries no counterparty, a prior record with the same amount
\* inside the window does not make the verdict is_duplicate = true: the only
\* reason can be "similar_amount_recent", below 0.7.
C6_ProximityAloneNeverDuplicate ==
    \A c \in Clients :
        /\ Returned(c)
        /\ ~HashRecorded(c)
        /\ ~is_duplicate_by_transaction_id(
               store, req[c].parsed_data.mpesa_details.transaction_id)
        /\ ~Truthy(req[c].parsed_data.mpesa_details.recipient)
        => /\ ~req[c].verdict.is_duplicate
           /\ req[c].verdict.confidence < 70
           /\ req[c].verdict.reasons \in {<<>>, <<"similar_amount_recent">>}

\* C7: every duplicate rejection leaves nothing persisted for it and a
\* detection-attempt log entry (user, hash, confidence, reasons, "blocked")
\* in the duplicate log.  Stated at the moment the rejection has been
\* answered, when nothing of the handler is left to run.
C7_RejectionLogged ==
    \A c \in Clients :
        req[c].pc = "done" /\ req[c].status = 400
            => \E i \in 1..Len(dupLogs) :
                  <<dupLogs[i]>> =
                      log_duplicate_attempt(
                          <<>>, FirstUser,
                          req[c].parsed_data.original_message_hash,
                          req[c].verdict)

\* C8: every non-empty list returned by parse_message_to_transactions has
\* one group id on all movements, exactly one primary movement, which is the
\* first and has a null parent, and on every other movement a non-null parent
\* reference that is the same for all of them.
C8_GroupLinkage ==
    dpc = "previewed" /\ txns # <<>>
        => /\ \A i \in 1..Len(txns) :
                txns[i].transaction_group_id = txns[1].transaction_group_id
           /\ txns[1].transaction_role = "primary"
           /\ txns[1].parent_transaction_id = None
           /\ \A i \in 2..Len(txns) :
                /\ txns[i].transaction_role # "primary"
                /\ txns[i].parent_transaction_id # None
                /\ txns[i].parent_transaction_id = txns[2].parent_transaction_id

\* A group of three: the primary and two fee legs
C8_Witness ==
    /\ dpc = "previewed"
    /\ Len(txns) = 3
    /\ txns[2].transaction_role = "fee"
    /\ txns[3].transaction_role = "access_fee"

\* Some message of the batch has a carrier fee and a hash the store lacks
FreshFeeMessage(messages, db) ==
    \E k \in 1..Len(messages) :
        /\ messages[k].transaction_fee > 0
        /\ ~is_duplicate_by_hash(db, messages[k].message_hash)

ImpliedNetEffect(c, pd) ==
    (IF pd.type = "income" THEN pd.amount ELSE 0 - pd.amount)
    - pd.total_fees
    - (IF NumTruthy(c.fuliza_deduction) THEN c.fuliza_deduction ELSE 0)

\* C10: for every decomposed group the signed sum of the movement amounts
\* equals the principal plus/minus every fee and deduction leg the parser
\* extracted from the message, to the minor unit.
C10_Conservation ==
    dpc = "previewed" /\ txns # <<>>
        => net_effect(txns) = ImpliedNetEffect(captures, parsed)

\* The message is of the compound kind and carries no fee text
CompoundWithoutFees ==
    /\ captures.pattern_type = "compound_received_fuliza"
    /\ captures.amount > 0
    /\ captures.fuliza_deduction > 0
    /\ captures.enhanced_transaction_fee = NoAmount
    /\ captures.enhanced_access_fee = NoAmount
    /\ \A k \in OtherFeeTypes : captures.enhanced_other[k] = NoAmount

\* C11: a compound "received + automatic overdraft repayment" message
\* without fee text decomposes into exactly two movements: an income primary
\* with the full received amount and an expense deduction with the swept
\* sub-amount, sharing one group id, the deduction's parent referring to the
\* primary.
C11_CompoundTwoMovements ==
    dpc = "previewed" /\ CompoundWithoutFees
        => /\ Len(txns) = 2
           /\ txns[1].transaction_role = "primary"
           /\ txns[1].type = "income"
           /\ txns[1].amount = captures.amount
           /\ txns[2].transaction_role = "fuliza_deduction"
           /\ txns[2].type = "expense"
           /\ txns[2].amount = captures.fuliza_deduction
           /\ txns[2].transaction_group_id = txns[1].transaction_group_id
           /\ txns[2].parent_transaction_id = txns[1].mpesa_details.transaction_id

\* The roles of the fee legs that the extracted fees call for, in order
ExpectedFeeRoles(pd) ==
    (IF pd.mpesa_details.transaction_fee > 0 THEN <<"fee">> ELSE <<>>)
    \o (IF pd.mpesa_details.access_fee > 0 THEN <<"access_fee">> ELSE <<>>)

\* C12: a decomposition lists its movements in the order primary, fee,
\* access_fee, deduction; the fee movement is there exactly when the
\* extracted transaction fee is > 0 and the access_fee movement exactly when
\* the extracted access fee is > 0; each is an expense of the extracted
\* amount with the review flag false.
C12_FeeLegEmission ==
    dpc = "previewed" /\ txns # <<>>
        => LET expected == <<"primary">> \o ExpectedFeeRoles(parsed)
           IN  /\ Len(txns) >= Len(expected)
               /\ \A i \in 1..Len(expected) :
                     txns[i].transaction_role = expected[i]
               /\ \A i \in 1..Len(txns) :
                     /\ i > Len(expected)
                          => txns[i].transaction_role = "fuliza_deduction"
                     /\ txns[i].transaction_role = "fee"
                          => /\ txns[i].type = "expense"
                             /\ txns[i].amount = parsed.mpesa_details.transaction_fee
                             /\ ~txns[i].requires_review
                     /\ txns[i].transaction_role = "access_fee"
                          => /\ txns[i].type = "expense"
                             /\ txns[i].amount = parsed.mpesa_details.access_fee
                             /\ ~txns[i].requires_review

\* A message with a zero transaction fee and an access fee: one leg only
C12_Witness ==
    /\ dpc = "previewed"
    /\ parsed.mpesa_details.transaction_fee = 0
    /\ parsed.mpesa_details.access_fee > 0
    /\ Len(txns) = 2
    /\ txns[2].transaction_role = "access_fee"

\* The calls of parse_message that returned a result
Returns == {i \in 1..Len(results) : results[i].outcome = "result"}

\* C13: every result of parse_message, from a pattern or from the generic
\* fallback and whatever the scoring signals, has a confidence between 0 and
\* 1, and asks for review exactly when that confidence is below 0.8.
C13_ConfidenceAndReview ==
    \A i \in Returns :
        /\ ~DblLess(results[i].parsing_confidence, DblZero)
        /\ ~DblLess(Dbl1, results[i].parsing_confidence)
        /\ results[i].requires_review
               <=> DblLess(results[i].parsing_confidence, Dbl08)

\* A pattern-matched result scored exactly 0.8, the threshold
C13_Witness ==
    \E i \in Returns :
        /\ results[i].message_type # "generic"
        /\ results[i].parsing_confidence = Dbl08
        /\ ~results[i].requires_review

\* The rule as the specification words it
RuleAccepts ==
    /\ (sms.has_primary \/ sms.has_modern_transaction_id
            \/ sms.has_legacy_transaction_id)
    /\ sms.has_currency
    /\ (sms.has_action \/ sms.has_balance)

StatedOrder ==
    <<"compound_received_fuliza", "fuliza_loan", "fuliza_repayment",
      "modern_sent", "modern_received", "received", "sent", "withdrawal",
      "airtime", "paybill", "till">>

Place(kind) == CHOOSE i \in 1..Len(StatedOrder) : StatedOrder[i] = kind

\* C15: parse_message reports the kind of the first pattern, in the stated
\* order, that matches the text: the reported kind matches, and no kind
\* placed before it does; a text without any matching pattern is reported
\* as generic or not at all.
C15_FirstMatchWins ==
    \A i \in Returns :
        IF sms.matches = {}
        THEN results[i].message_type = "generic"
        ELSE /\ results[i].message_type \in sms.matches
             /\ \A k \in sms.matches :
                    Place(results[i].message_type) <= Place(k)

\* A text matched by the compound pattern and by a received pattern came
\* back as compound
C15_Witness ==
    /\ sms.matches = {"compound_received_fuliza", "modern_received"}
    /\ Len(results) >= 1
    /\ results[1].outcome = "result"
    /\ results[1].message_type = "compound_received_fuliza"

\* The text is empty, or the classifier turns it away, or no pattern matches
\* it and its bare amount is missing or not positive
NoResultExpected ==
    \/ sms.blank
    \/ ~RuleAccepts
    \/ sms.matches = {} /\ ~(extract_amount(sms.amount_capture) > 0)

\* C16: parse_message never raises; it returns no result exactly when the
\* text is empty, the classifier rejects it, or no pattern matches and the
\* generic fallback finds no positive amount, and a typed result otherwise.
C16_NoFatalOutcome ==
    \A i \in 1..Len(results) :
        /\ results[i].outcome # "raised"
        /\ results[i].outcome = "none" <=> NoResultExpected

\* C17: every result parse_message returns has an amount that is present
\* and not negative, and has its kind set, also when the captured amount
\* text cannot be converted and on the generic fallback.
C17_AmountPresent ==
    \A i \in Returns :
        /\ ~IsNone(results[i].amount)
        /\ results[i].amount >= 0
        /\ results[i].message_type # None

\* C18: two calls of parse_message on the same text, made at different
\* wall-clock times, return results that are equal in every field, the
\* extracted timestamp and the metadata block included.
C18_Deterministic ==
    \A i, j \in 1..Len(results) : results[i] = results[j]

\* The completion of a two-digit year as the specification words it
StatedYear(y, Y) ==
    IF y <= (Y % 100) + 5 THEN (Y \div 100) * 100 + y
    ELSE IF y >= (Y % 100) + 50 THEN (Y \div 100) * 100 - 100 + y
    ELSE (Y \div 100) * 100 + y

C20_DayFirst ==
    \A i \in 1..Len(stamps) :
        /\ sms.date.first \in 1..12
        /\ sms.date.second \in 1..12
        /\ stamps[i].value # NoStamp
        => /\ stamps[i].value.day = sms.date.first
           /\ stamps[i].value.month = sms.date.second

\* The numbers of the token form a calendar date-time in neither reading
\* (first/second as day/month or as month/day), or its time is not a time
InvalidComponents(tok, year) ==
    \/ /\ ~ValidDate(year, tok.first, tok.second)
       /\ ~ValidDate(year, tok.second, tok.first)
    \/ tok.timed /\ Hour24(tok.hour, tok.am_pm) \notin 0..23
    \/ tok.timed /\ tok.minute \notin 0..59

\* C21: when the captured day, month, hour or minute do not form a valid
\* calendar date-time (day 31 of a 30-day month, day 30 of February, month
\* 13 with day 13), parse_transaction_date returns no timestamp.
C21_InvalidDateEmpty ==
    \A i \in 1..Len(stamps) :
        InvalidComponents(sms.date, stamps[i].year)
            => stamps[i].value = NoStamp

\* The keyword categories in the order the description lists them
ListedOrder ==
    <<"Utilities", "Transport", "Food & Dining", "Shopping", "Health",
      "Education", "Entertainment", "Financial Services",
      "Government & Services">>

TieredLabel(t, order) ==
    LET hits == {i \in 1..Len(order) : order[i] \in t.keywords}
    IN  IF t.paybill_number \in DOMAIN utility_paybills
        THEN utility_paybills[t.paybill_number]
        ELSE IF hits # {}
        THEN order[CHOOSE i \in hits : \A j \in hits : i <= j]
        ELSE IF t.person_name THEN "Personal Transfer"
        ELSE IF t.bill_word THEN "Bills & Fees"
        ELSE "Other"

\* C22 as stated: every call of the category suggester returns the label of
\* the first tier that applies, the tiers being the exact paybill-code table,
\* the keyword sets in the listed order (utilities first, government last),
\* the person-name rule, the paybill/till fallback and "Other"
C22_ListedTiers ==
    \A i \in 1..Len(labels) : labels[i] = TieredLabel(subject, ListedOrder)

\* C22: every call of the category suggester returns a label, and it is the
\* label of the first tier that applies, the tiers being the exact
\* paybill-code table, the overdraft keyword ("Loans & Credit") followed by
\* the keyword sets in the listed order, the person-name rule, the
\* paybill/till fallback and "Other"
C22_TieredFirstMatch ==
    \A i \in 1..Len(labels) :
        labels[i] = TieredLabel(subject, <<"Loans & Credit">> \o ListedOrder)

\* A text with a keyword hit and a recipient that reads as a person's name,
\* labelled by the keyword tier
C22_Witness ==
    /\ labels # <<>>
    /\ subject.paybill_number \notin DOMAIN utility_paybills
    /\ subject.keywords = {"Transport", "Health"}
    /\ subject.person_name
    /\ labels[1] = "Transport"

\* The pattern's own fee groups and the fee probes read the same amounts
SameFeeText(c) ==
    /\ c.transaction_fee \in {NoAmount, c.enhanced_transaction_fee}
    /\ c.access_fee \in {NoAmount, c.enhanced_access_fee}

RECURSIVE SumFound(_, _)
SumFound(fees, keys) ==
    IF keys = {} THEN 0
    ELSE LET k == CHOOSE x \in keys : TRUE
         IN  (IF fees[k] = NoAmount THEN 0 ELSE fees[k])
             + SumFound(fees, keys \ {k})

\* C23: for every pattern-matched message the fee breakdown reported by
\* parse_message holds every fee the fee extractor found (a zero transaction
\* fee included), and the reported total is the sum of the extractor's values
C23_FeeReportAgreement ==
    (/\ parsed.ok
     /\ parsed.mpesa_details.message_type # "generic"
     /\ SameFeeText(captures))
        => /\ \A k \in FeeTypes :
                  extract_all_fees(captures)[k] # NoAmount
                      => parsed.fee_breakdown[k] = extract_all_fees(captures)[k]
           /\ parsed.total_fees = SumFound(extract_all_fees(captures), FeeTypes)

\* C24: in the response of import_sms_messages every message of the batch is
\* counted in exactly one of successful_imports, duplicates_found and
\* parsing_errors, so the three sum to total_messages, and
\* total_monetary_movements is the number of ids in transactions_created
C24_ImportAccounting ==
    /\ importResp.successful_imports + importResp.duplicates_found
           + importResp.parsing_errors = importResp.total_messages
    /\ importResp.total_monetary_movements = Len(importResp.transactions_created)

\* A batch of two messages has been handled and answered
C24_Witness ==
    /\ importLogs # <<>>
    /\ importResp.total_messages = 2
    /\ importResp.parsing_errors + importResp.successful_imports
           + importResp.duplicates_found = 2

IncomeKinds ==
    {"received", "modern_received", "compound_received_fuliza", "fuliza_loan"}

ExpenseKinds ==
    {"sent", "modern_sent", "withdrawal", "airtime", "paybill", "till",
     "fuliza_repayment"}

\* C25: the direction of every parsed message follows its kind, the received
\* and overdraft-loan kinds being income and the sent, withdrawal, airtime,
\* paybill, till and overdraft-repayment kinds expense, whatever other words
\* the text holds
C25_DirectionFollowsKind ==
    parsed.ok =>
        /\ parsed.mpesa_details.message_type \in IncomeKinds
               => parsed.type = "income"
        /\ parsed.mpesa_details.message_type \in ExpenseKinds
               => parsed.type = "expense"

\* C26: a batch of one parseable message, handled while the store holds no
\* record (so the message's hash is not in it), ends with the message's
\* movement group persisted, successful_imports = 1 and parsing_errors = 0
C26_FreshImportProgress ==
    [][(/\ importLogs' # importLogs
        /\ store = <<>>
        /\ importResp'.total_messages = 1)
          => /\ importResp'.successful_imports = 1
             /\ importResp'.parsing_errors = 0
             /\ store' # <<>>]_vars

\* What the patterns and the fee probes read from an overdraft-loan text
\* whose only fee text is "Access fee charged X": the pattern's access-fee
\* group and the probe "access fee charged" of line 1052 read X, and so does
\* the transaction-fee probe "charge[d]?" of line 1037, which finds the word
\* "charged" of the same phrase
SingleAccessCharge(c) ==
    /\ c.pattern_type = "fuliza_loan"
    /\ c.amount > 0
    /\ c.access_fee = 500
    /\ c.enhanced_access_fee = c.access_fee
    /\ c.enhanced_transaction_fee = c.access_fee
    /\ \A k \in OtherFeeTypes : c.enhanced_other[k] = NoAmount

\* C27: a message that states a single charge, "Access fee charged X", is
\* decomposed into the primary and one access_fee movement of amount X, with
\* no carrier-fee movement
C27_OneChargeOneLeg ==
    (dpc = "previewed" /\ SingleAccessCharge(captures))
        => /\ Len(txns) = 2
           /\ txns[1].transaction_role = "primary"
           /\ txns[2].transaction_role = "access_fee"
           /\ txns[2].amount = captures.access_fee
           /\ \A i \in 1..Len(txns) : txns[i].transaction_role # "fee"

\* Two messages of the batch carry one reference code and differ in their
\* text, hence in their content hashes
SameReferenceOtherText(messages) ==
    \E i, j \in 1..Len(messages) :
        /\ i < j
        /\ Truthy(messages[i].transaction_id)
        /\ messages[i].transaction_id = messages[j].transaction_id
        /\ messages[i].message_hash # messages[j].message_hash

C29_UserIsolation ==
    \A i, j \in 1..Len(verdicts) :
        verdicts[i].arguments = verdicts[j].arguments
            => /\ verdicts[i].verdict.raised = verdicts[j].verdict.raised
               /\ verdicts[i].verdict.is_duplicate = verdicts[j].verdict.is_duplicate
               /\ verdicts[i].verdict.confidence = verdicts[j].verdict.confidence
               /\ verdicts[i].verdict.reasons = verdicts[j].verdict.reasons

\* The records an import step added to the store
AddedBy(before, after) == {i \in 1..Len(after) : i > Len(before)}

====
